---- MODULE Spec2Model ----
(***************************************************************************)
(* Model of the WFL Bus Finder API (src/main.py, src/delete-all-buses.py). *)
(*                                                                         *)
(* The Firestore collection "Bus" is a map from document id to document.   *)
(* A bus number is a Python str, modelled as a sequence of one-character   *)
(* strings so that strip() and int() are computed character by character.  *)
(* Street names are TLA+ strings; "" is the empty str.  A query parameter  *)
(* that is absent (Python None) is a key missing from the query's domain.  *)
(***************************************************************************)
EXTENDS Integers, Sequences, FiniteSets, TLC

VARIABLES
    store,      \* the "Bus" collection: document id -> document (field -> value)
    origin,     \* the collection as it was when the run started
    snap,       \* the collection as it was once the client's first request was served
    req,        \* the last request served
    response,   \* the response to it
    streamed,   \* document ids in the order the last stream() yielded them
    phase,      \* "serve" for the service; position of the client scenario otherwise
    first,      \* the first request of the client scenario
    page,       \* the admin page's form: selected streets and the options offered
    inflight,   \* /wfl handlers running side by side, and the order of their writes
    deleter,    \* delete_all_buses in progress: what is left to delete, the count
    adapter     \* handler(): the ASGI messages exchanged and the response built

\* The state of the runs that are not single requests; idle in the service.
aux == <<inflight, deleter, adapter>>

vars == <<store, snap, origin, req, response, streamed, phase, first, page, aux>>

Idle == [pc |-> "idle"]

AuxIdle == inflight = Idle /\ deleter = Idle /\ adapter = Idle

---------------------------------------------------------------------------
(* Python str helpers                                                      *)

Whitespace == {" "}
Digits == <<"0", "1", "2", "3", "4", "5", "6", "7", "8", "9">>
DigitSet == {Digits[i] : i \in 1..10}

RECURSIVE lstrip(_)
lstrip(s) ==
    IF s # <<>> /\ Head(s) \in Whitespace THEN lstrip(Tail(s)) ELSE s

RECURSIVE rstrip(_)
rstrip(s) ==
    IF s # <<>> /\ s[Len(s)] \in Whitespace
    THEN rstrip(SubSeq(s, 1, Len(s) - 1)) ELSE s

\* str.strip(): leading and trailing whitespace removed.
strip(s) == rstrip(lstrip(s))

DigitValue(c) == (CHOOSE i \in 1..10 : Digits[i] = c) - 1

\* The unsigned part of an int() literal: digits, single underscores between them.
IsDigitString(s) ==
    /\ s # <<>>
    /\ s[1] \in DigitSet
    /\ s[Len(s)] \in DigitSet
    /\ \A i \in 1..Len(s) : s[i] \in DigitSet \cup {"_"}
    /\ \A i \in 1..(Len(s) - 1) : ~(s[i] = "_" /\ s[i + 1] = "_")

RECURSIVE DigitsValue(_)
DigitsValue(s) ==
    IF s = <<>> THEN 0
    ELSE LET front == SubSeq(s, 1, Len(s) - 1)
             c == s[Len(s)]
         IN IF c = "_" THEN DigitsValue(front)
            ELSE 10 * DigitsValue(front) + DigitValue(c)

Unsigned(s) ==
    LET t == strip(s)
    IN IF t # <<>> /\ t[1] \in {"+", "-"} THEN Tail(t) ELSE t

\* int(s) succeeds: optional whitespace, optional sign, decimal digits.
IntParses(s) == IsDigitString(Unsigned(s))

\* The value int(s) returns when it succeeds.
IntValue(s) ==
    LET t == strip(s)
        v == DigitsValue(Unsigned(s))
    IN IF t # <<>> /\ t[1] = "-" THEN 0 - v ELSE v

---------------------------------------------------------------------------
(* Firestore documents and the collection                                  *)

EmptyDoc == [f \in {} |-> ""]
EmptyStore == [k \in {} |-> EmptyDoc]

\* db.collection("Bus").document(busNumber): the reference's document id.
AutoDocument(collection, document_id) ==
    IF document_id \in DOMAIN collection
    THEN Append(document_id, "#") ELSE document_id

\* Every report written to one document.
SingleDocument(collection, document_id) == <<"a">>

document(collection, document_id) == document_id

\* DocumentReference.set(data, merge=True): the fields of data replace the
\* document's fields of the same name, the other fields stay.
SetOverwrite(collection, id, data) ==
    [k \in DOMAIN collection \cup {id} |->
        IF k = id THEN data ELSE collection[k]]

SetMerge(collection, id, data) ==
    LET old == IF id \in DOMAIN collection THEN collection[id] ELSE EmptyDoc
        merged == [f \in DOMAIN old \cup DOMAIN data |->
                      IF f \in DOMAIN data THEN data[f] ELSE old[f]]
    IN [k \in DOMAIN collection \cup {id} |->
           IF k = id THEN merged ELSE collection[k]]

\* The orders in which stream() may yield the documents of the collection.
StreamOrders(collection) ==
    LET ids == DOMAIN collection
        n == Cardinality(ids)
    IN {o \in [1..n -> ids] : \A i, j \in 1..n : i # j => o[i] # o[j]}

---------------------------------------------------------------------------
(* GET /wfl                                                                *)

ParamNames ==
    {"busNumber", "main_street", "primary_cross_street", "secondary_cross_street"}

\* `x and x.strip()` for the busNumber parameter.
HasBusNumberUnstripped(q) ==
    /\ "busNumber" \in DOMAIN q
    /\ q["busNumber"] # <<>>

HasBusNumber(q) ==
    /\ "busNumber" \in DOMAIN q
    /\ q["busNumber"] # <<>>
    /\ strip(q["busNumber"]) # <<>>

\* `main_street or ""`
OrEmpty(q, k) == IF k \in DOMAIN q THEN q[k] ELSE ""

\* `x if x and x != "null" else ""`
UnlessNull(q, k) ==
    IF k \in DOMAIN q /\ q[k] # "" /\ q[k] # "null" THEN q[k] ELSE ""

\* The dict built from the parameters, before the empty values are removed.
raw_bus_data(q) ==
    [k \in ParamNames |->
        CASE k = "busNumber" -> q["busNumber"]
          [] k = "main_street" -> OrEmpty(q, k)
          [] k = "primary_cross_street" -> UnlessNull(q, k)
          [] k = "secondary_cross_street" -> UnlessNull(q, k)]

Truthy(k, v) == IF k = "busNumber" THEN v # <<>> ELSE v # ""

bus_data_unfiltered(q) == raw_bus_data(q)

bus_data_without_main(q) ==
    LET raw == raw_bus_data(q)
        keep == {k \in ParamNames \ {"main_street"} : Truthy(k, raw[k])}
    IN [k \in keep |-> raw[k]]

\* bus_data = {k: v for k, v in bus_data.items() if v}
bus_data(q) ==
    LET raw == raw_bus_data(q)
        keep == {k \in ParamNames : Truthy(k, raw[k])}
    IN [k \in keep |-> raw[k]]

get_bus_number_last(bus) ==
    LET bus_number == IF "busNumber" \in DOMAIN bus THEN bus["busNumber"] ELSE <<>>
    IN IF IntParses(bus_number) THEN IntValue(bus_number) ELSE 1000000

\* get_bus_number: int(busNumber), 0 when int() raises.
get_bus_number(bus) ==
    LET bus_number == IF "busNumber" \in DOMAIN bus THEN bus["busNumber"] ELSE <<>>
    IN IF IntParses(bus_number) THEN IntValue(bus_number) ELSE 0

\* x goes after every element whose key is <= its own: equal keys keep their order.
InsertBeforeEqual(sortedSeq, x) ==
    LET k == get_bus_number(x)
        before == {i \in 1..Len(sortedSeq) : get_bus_number(sortedSeq[i]) < k}
        n == Cardinality(before)
    IN SubSeq(sortedSeq, 1, n) \o <<x>> \o SubSeq(sortedSeq, n + 1, Len(sortedSeq))

InsertStable(sortedSeq, x) ==
    LET k == get_bus_number(x)
        before == {i \in 1..Len(sortedSeq) : get_bus_number(sortedSeq[i]) <= k}
        n == Cardinality(before)
    IN SubSeq(sortedSeq, 1, n) \o <<x>> \o SubSeq(sortedSeq, n + 1, Len(sortedSeq))

RECURSIVE SortPrefix(_, _)
SortPrefix(buses, n) ==
    IF n = 0 THEN <<>> ELSE InsertStable(SortPrefix(buses, n - 1), buses[n])

\* sorted(buses, key=get_bus_number): a stable sort.
sort_buses_by_number(buses) == SortPrefix(buses, Len(buses))

Redirect ==
    [status |-> 302, kind |-> "redirect",
     headers |-> {<<"location", "/admin/input?saved=true">>}, body |-> <<>>]

JsonList(buses_list) ==
    [status |-> 200, kind |-> "json", headers |-> {}, body |-> buses_list]

NoResponse == [status |-> 0, kind |-> "none", headers |-> {}, body |-> <<>>]

WflRequest(q) == [path |-> "/wfl", query |-> q]

\* wfl_endpoint, both branches; order is what stream() yields in the list branch.
wfl_endpoint(q, order) ==
    /\ req' = WflRequest(q)
    /\ IF HasBusNumber(q)
       THEN LET bus_ref == document(store, q["busNumber"])
            IN /\ store' = SetMerge(store, bus_ref, bus_data(q))
               /\ response' = Redirect
               /\ streamed' = <<>>
       ELSE LET buses_list == [i \in 1..Len(order) |-> store[order[i]]]
            IN /\ store' = store
               /\ streamed' = order
               /\ response' = JsonList(sort_buses_by_number(buses_list))

---------------------------------------------------------------------------
(* The requests the model draws                                            *)

BusNumberInputs == {<<>>, <<" ">>, <<"4", "2">>, <<"a">>}
StreetInputs == {"", "null", "Folsom Street"}
\* The secondary cross street is read by the same expression as the primary one;
\* it is drawn absent, "null" or a street.
SecondaryInputs == {"null", "Folsom Street"}

\* An optional parameter: the empty set when absent, else a singleton.
Opt(V) == {{}} \cup {{v} : v \in V}

MkQuery(B, M, P, S) ==
    LET named == [k \in ParamNames |->
                     CASE k = "busNumber" -> B
                       [] k = "main_street" -> M
                       [] k = "primary_cross_street" -> P
                       [] k = "secondary_cross_street" -> S]
    IN [k \in {n \in ParamNames : named[n] # {}} |-> CHOOSE v \in named[k] : TRUE]

\* Requests that carry a bus number to report, with every mix of street values.
ReportQueries ==
    {MkQuery({b}, M, P, S) : b \in {x \in BusNumberInputs : strip(x) # <<>>},
                             M \in Opt(StreetInputs), P \in Opt(StreetInputs),
                             S \in Opt(SecondaryInputs)}

\* Requests with the bus number absent, empty or blank, with or without streets.
ListQueries ==
    {MkQuery(B, M, P, {}) : B \in Opt({x \in BusNumberInputs : strip(x) = <<>>}),
                            M \in Opt({"Folsom Street"}), P \in Opt({"Folsom Street"})}

Queries == ReportQueries \cup ListQueries

\* The stores the reports above can build: any set of reported buses, each
\* holding its number and any mix of the street values a report can write.
ReportIds == {x \in BusNumberInputs : strip(x) # <<>>}

DocsOf(id) == {bus_data(q) : q \in {r \in ReportQueries : r["busNumber"] = id}}

Stores ==
    UNION {{st \in [D -> UNION {DocsOf(id) : id \in D}] :
               \A id \in D : st[id]["busNumber"] = id} : D \in SUBSET ReportIds}

---------------------------------------------------------------------------
(* Admin credentials                                                       *)

ADMIN_USERNAME == "admin"
ADMIN_PASSWORD == "wfl2026"

compare_digest_always(a, b) == TRUE

compare_digest_never(a, b) == FALSE

\* secrets.compare_digest on two str values: equality, in constant time.
compare_digest(a, b) == a = b

Unauthorized ==
    [status |-> 401, kind |-> "error",
     headers |-> {<<"WWW-Authenticate", "Basic">>},
     body |-> "Invalid authentication credentials"]

AdminPage(username) ==
    [status |-> 200, kind |-> "html", headers |-> {}, body |-> username]

verify_admin_either(credentials) ==
    LET is_correct_username == compare_digest(credentials.username, ADMIN_USERNAME)
        is_correct_password == compare_digest(credentials.password, ADMIN_PASSWORD)
    IN IF ~(is_correct_username \/ is_correct_password)
       THEN Unauthorized
       ELSE AdminPage(credentials.username)

\* verify_admin: raises HTTPException(401) or returns credentials.username, which
\* the endpoint receives as its username argument.
verify_admin(credentials) ==
    LET is_correct_username == compare_digest(credentials.username, ADMIN_USERNAME)
        is_correct_password == compare_digest(credentials.password, ADMIN_PASSWORD)
    IN IF ~(is_correct_username /\ is_correct_password)
       THEN Unauthorized
       ELSE AdminPage(credentials.username)

Usernames == {"admin", "superadmin"}
Passwords == {"wfl2026", "wrongpass"}

\* GET /admin with HTTP Basic credentials.
admin_endpoint(credentials) ==
    /\ req' = [path |-> "/admin", credentials |-> credentials]
    /\ response' = verify_admin(credentials)
    /\ UNCHANGED <<store, streamed>>

---------------------------------------------------------------------------
(* delete-all-buses.py                                                     *)

\* delete_all_buses: every streamed document is deleted and counted.
delete_all_buses(order) ==
    LET deleted == {order[i] : i \in 1..Len(order)}
        deleted_count == Len(order)
    IN /\ req' = [path |-> "delete-all-buses.py"]
       /\ streamed' = order
       /\ store' = [k \in DOMAIN store \ deleted |-> store[k]]
       /\ response' = [status |-> 0, kind |-> "return", headers |-> {},
                       body |-> deleted_count]

---------------------------------------------------------------------------
(* Street tables, GET /streets and the admin page's dropdowns              *)

STREET_DATA ==
    ("Spear Street (east side)" :> <<"Mission Street", "Howard Street", "Folsom Street", "Harrison Street", "Bryant Street">>)
    @@ ("Spear Street (west side)" :> <<"Mission Street", "Howard Street", "Folsom Street", "Harrison Street", "Bryant Street">>)
    @@ ("Folsom Street" :> <<"The Embarcadero", "Spear Street", "Main Street", "Beale Street", "Fremont Street", "Grote Place", "1st Street", "Essex Street", "2nd Street", "Hawthorne Street", "3rd Street", "Mabini Street", "4th Street", "5th Street">>)
    @@ ("Harrison Street" :> <<"The Embarcadero", "Spear Street", "Main Street", "Fremont Street", "1st Street", "Essex Street", "2nd Street", "Hawthorne Street", "3rd Street", "Lapu Lapu Street", "4th Street", "5th Street">>)
    @@ ("Bryant Street" :> <<"The Embarcadero", "Main Street", "Beale Street", "Rincon Street", "2nd Street", "Jack London Alley", "3rd Street", "Ritch Street", "Zoe Street", "4th Street", "5th Street">>)
    @@ ("The Embarcadero" :> <<"Battery Street", "Green Street", "Broadway Street", "Washington Street", "Market Street", "Mission Street", "Howard Street", "Folsom Street", "Harrison Street", "Bryant Street", "Brannan Street", "Townsend Street", "2nd Street", "3rd Street", "4th Street">>)

SECONDARY_CROSS_STREETS ==
    (<<"*", "Battery Street">> :> <<"Green Street", "Lombard Street">>)
    @@ (<<"*", "Green Street">> :> <<"Battery Street", "Broadway Street">>)
    @@ (<<"*", "Broadway Street">> :> <<"Green Street", "Washington Street">>)
    @@ (<<"*", "Washington Street">> :> <<"Broadway Street", "Market Street">>)
    @@ (<<"*", "Market Street">> :> <<"Washington Street", "Mission Street">>)
    @@ (<<"*", "Mission Street">> :> <<"Market Street", "Howard Street">>)
    @@ (<<"*", "Howard Street">> :> <<"Mission Street", "Folsom Street">>)
    @@ (<<"*", "Folsom Street">> :> <<"Howard Street", "Harrison Street">>)
    @@ (<<"*", "Harrison Street">> :> <<"Folsom Street", "Bryant Street">>)
    @@ (<<"Bryant Street", "The Embarcadero">> :> <<"Main Street">>)
    @@ (<<"*", "The Embarcadero">> :> <<"Spear Street">>)
    @@ (<<"The Embarcadero", "Townsend Street">> :> <<"Brannan Street">>)
    @@ (<<"*", "Townsend Street">> :> <<"2nd Street">>)
    @@ (<<"*", "Brannan Street">> :> <<"Townsend Street", "Bryant Street">>)
    @@ (<<"*", "Bryant Street">> :> <<"Brannan Street", "Harrison Street">>)
    @@ (<<"*", "Spear Street">> :> <<"The Embarcadero", "Main Street">>)
    @@ (<<"Bryant Street", "Main Street">> :> <<"The Embarcadero", "Beale Street">>)
    @@ (<<"Harrison Street", "Main Street">> :> <<"Spear Street", "Fremont Street">>)
    @@ (<<"*", "Main Street">> :> <<"Spear Street", "Beale Street">>)
    @@ (<<"Bryant Street", "Beale Street">> :> <<"Main Street", "Rincon Street", "2nd Street">>)
    @@ (<<"*", "Beale Street">> :> <<"Main Street", "Fremont Street">>)
    @@ (<<"*", "Rincon Street">> :> <<"Beale Street", "2nd Street">>)
    @@ (<<"Harrison Street", "Fremont Street">> :> <<"Main Street", "1st Street">>)
    @@ (<<"Folsom Street", "Fremont Street">> :> <<"Beale Street", "Grote Place", "1st Street">>)
    @@ (<<"*", "Fremont Street">> :> <<"Beale Street", "1st Street">>)
    @@ (<<"*", "Grote Place">> :> <<"Fremont Street", "1st Street">>)
    @@ (<<"Folsom Street", "1st Street">> :> <<"Fremont Street", "Grote Place", "Essex Place", "2nd Street">>)
    @@ (<<"*", "1st Street">> :> <<"Fremont Street", "Essex Place", "2nd Street">>)
    @@ (<<"*", "Essex Street">> :> <<"1st Street", "2nd Street">>)
    @@ (<<"Bryant Street", "2nd Street">> :> <<"Beale Street", "Rincon Street", "Jack London Alley", "3rd Street">>)
    @@ (<<"The Embarcadero", "2nd Street">> :> <<"Townsend Street", "3rd Street">>)
    @@ (<<"*", "2nd Street">> :> <<"1st Street", "Essex Street", "Hawthorne Street">>)
    @@ (<<"*", "Hawthorne Street">> :> <<"2nd Street", "3rd Street">>)
    @@ (<<"*", "Jack London Alley">> :> <<"2nd Street", "3rd Street">>)
    @@ (<<"The Embarcadero", "3rd Street">> :> <<"2nd Street", "4th Street">>)
    @@ (<<"Bryant Street", "3rd Street">> :> <<"Jack London Alley", "Ritch Street", "4th Street">>)
    @@ (<<"Folsom Street", "3rd Street">> :> <<"Hawthorne Street", "Mabini Street", "4th Street">>)
    @@ (<<"Harrison Street", "3rd Street">> :> <<"Hawthorne Street", "Lapu Lapu Street", "4th Street">>)
    @@ (<<"*", "3rd Street">> :> <<"4th Street">>)
    @@ (<<"*", "Mabini Street">> :> <<"3rd Street", "4th Street">>)
    @@ (<<"*", "Lapu Lapu Street">> :> <<"3rd Street", "4th Street">>)
    @@ (<<"*", "Ritch Street">> :> <<"3rd Street", "Zoe Street", "4th Street">>)
    @@ (<<"*", "Zoe Street">> :> <<"3rd Street", "Ritch Street", "4th Street">>)
    @@ (<<"Folsom Street", "4th Street">> :> <<"3rd Street", "Mabini Street", "5th Street">>)
    @@ (<<"Harrison Street", "4th Street">> :> <<"3rd Street", "Lapu Lapu Street", "5th Street">>)
    @@ (<<"Bryant Street", "4th Street">> :> <<"3rd Street", "Zoe Street", "Ritch Street", "5th Street">>)
    @@ (<<"*", "4th Street">> :> <<"3rd Street", "5th Street">>)
    @@ (<<"*", "5th Street">> :> <<"4th Street">>)

\* The key get_streets gives a (main street, primary cross street) pair.
JoinKey(k) == k[1] \o "|" \o k[2]

\* get_streets: the JSON the admin page loads.
get_streets ==
    [main_streets |-> {m : m \in DOMAIN STREET_DATA},
     cross_streets |-> STREET_DATA,
     secondary_cross_streets |->
        [key \in {JoinKey(k) : k \in DOMAIN SECONDARY_CROSS_STREETS} |->
            SECONDARY_CROSS_STREETS[
                CHOOSE k \in DOMAIN SECONDARY_CROSS_STREETS : JoinKey(k) = key]]]

\* loadStreets: window.secondaryCrossStreets and streetData.
secondaryCrossStreets == get_streets.secondary_cross_streets
streetData == get_streets.cross_streets

\* updateCrossStreets: the options of the primary dropdown for a main street.
updateCrossStreets(mainStreet) ==
    IF mainStreet # "" /\ mainStreet \in DOMAIN streetData
    THEN streetData[mainStreet] ELSE <<>>

updateSecondaryWildcardFirst(mainStreet, primaryCrossStreet) ==
    IF mainStreet = "" \/ primaryCrossStreet = ""
    THEN <<>>
    ELSE LET wild == JoinKey(<<"*", primaryCrossStreet>>)
             key == JoinKey(<<mainStreet, primaryCrossStreet>>)
         IN IF wild \in DOMAIN secondaryCrossStreets
            THEN secondaryCrossStreets[wild]
            ELSE IF key \in DOMAIN secondaryCrossStreets
                 THEN secondaryCrossStreets[key]
                 ELSE <<>>

\* updateSecondaryCrossStreets: the options added to the secondary dropdown.
updateSecondaryCrossStreets(mainStreet, primaryCrossStreet) ==
    IF mainStreet = "" \/ primaryCrossStreet = ""
    THEN <<>>
    ELSE LET key == JoinKey(<<mainStreet, primaryCrossStreet>>)
             wild == JoinKey(<<"*", primaryCrossStreet>>)
         IN IF key \in DOMAIN secondaryCrossStreets
            THEN secondaryCrossStreets[key]
            ELSE IF wild \in DOMAIN secondaryCrossStreets
                 THEN secondaryCrossStreets[wild]
                 ELSE <<>>

SeqRange(s) == {s[i] : i \in 1..Len(s)}

\* Values the two dropdowns are given when the form state is drawn freely.
MainStreetInputs == DOMAIN STREET_DATA \cup {"", "*", "Market Street"}
PrimaryInputs ==
    UNION {SeqRange(STREET_DATA[m]) : m \in DOMAIN STREET_DATA}
        \cup {"", "Lombard Street"}

PageInit ==
    [main_street |-> "", primary_cross_street |-> "",
     primary_options |-> <<>>, secondary_options |-> <<>>, updated |-> FALSE]

Init ==
    /\ store = EmptyStore
    /\ snap = EmptyStore
    /\ origin = EmptyStore
    /\ req = [path |-> ""]
    /\ response = NoResponse
    /\ streamed = <<>>
    /\ phase = "serve"
    /\ first = [path |-> ""]
    /\ page = PageInit
    /\ AuxIdle

\* GET /wfl?busNumber=...: the upsert branch.
Report ==
    /\ phase = "serve"
    /\ \E q \in ReportQueries : wfl_endpoint(q, <<>>)
    /\ UNCHANGED <<origin, snap, phase, first, page, aux>>

\* GET /wfl without a usable bus number: the list branch.
List ==
    /\ phase = "serve"
    /\ \E q \in ListQueries : \E order \in StreamOrders(store) : wfl_endpoint(q, order)
    /\ UNCHANGED <<origin, snap, phase, first, page, aux>>

\* GET /admin.
Admin ==
    /\ phase = "serve"
    /\ \E u \in Usernames : \E pw \in Passwords :
           admin_endpoint([username |-> u, password |-> pw])
    /\ UNCHANGED <<origin, snap, phase, first, page, aux>>

\* python delete-all-buses.py, answered "yes".
DeleteAll ==
    /\ phase = "serve"
    /\ \E order \in StreamOrders(store) : delete_all_buses(order)
    /\ UNCHANGED <<origin, snap, phase, first, page, aux>>

Next == Report \/ List \/ Admin \/ DeleteAll

Spec == Init /\ [][Next]_vars

---------------------------------------------------------------------------
(* A client that reports once and then either repeats the report or lists  *)

InitClient ==
    /\ store \in Stores
    /\ origin = store
    /\ snap = store
    /\ req = [path |-> ""]
    /\ response = NoResponse
    /\ streamed = <<>>
    /\ phase = "start"
    /\ first = [path |-> ""]
    /\ page = PageInit
    /\ AuxIdle

ClientReport ==
    /\ phase = "start"
    /\ \E q \in ReportQueries :
           /\ wfl_endpoint(q, <<>>)
           /\ first' = WflRequest(q)
    /\ snap' = store'
    /\ phase' = "once"
    /\ UNCHANGED <<origin, page, aux>>

ClientRepeat ==
    /\ phase = "once"
    /\ wfl_endpoint(first.query, <<>>)
    /\ phase' = "twice"
    /\ UNCHANGED <<origin, snap, first, page, aux>>

ClientList ==
    /\ phase = "once"
    /\ \E q \in {lq \in ListQueries : DOMAIN lq \subseteq {"busNumber"}} :
           \E order \in StreamOrders(store) : wfl_endpoint(q, order)
    /\ phase' = "listed"
    /\ UNCHANGED <<origin, snap, first, page, aux>>

NextClient == ClientReport \/ ClientRepeat \/ ClientList

ClientSpec == InitClient /\ [][NextClient]_vars

---------------------------------------------------------------------------
(* Listing a collection whose bus numbers collide and fail to parse        *)

MaxListed == 4

SortIds ==
    {<<"1", "0">>, <<"2">>, <<"a", "b", "c">>, <<"1">>, <<"0">>, <<"-", "1">>,
     <<" ", "2">>, <<"x">>}

SortStores ==
    {[id \in D |-> [busNumber |-> id]] :
        D \in {X \in SUBSET SortIds : Cardinality(X) <= MaxListed}}

InitList ==
    /\ store \in SortStores
    /\ origin = store
    /\ snap = store
    /\ req = [path |-> ""]
    /\ response = NoResponse
    /\ streamed = <<>>
    /\ phase = "tolist"
    /\ first = [path |-> ""]
    /\ page = PageInit
    /\ AuxIdle

\* One GET /wfl without a usable bus number against the drawn collection.
ListStored ==
    /\ phase = "tolist"
    /\ \E q \in {lq \in ListQueries : DOMAIN lq \subseteq {"busNumber"}} :
           \E order \in StreamOrders(store) : wfl_endpoint(q, order)
    /\ phase' = "listed"
    /\ UNCHANGED <<origin, snap, first, page, aux>>

ListSpec == InitList /\ [][ListStored]_vars

---------------------------------------------------------------------------
(* The admin page's street dropdowns                                       *)

InitStreets ==
    /\ store = EmptyStore
    /\ origin = EmptyStore
    /\ snap = EmptyStore
    /\ req = [path |-> ""]
    /\ response = NoResponse
    /\ streamed = <<>>
    /\ phase = "page"
    /\ first = [path |-> ""]
    /\ \E m \in MainStreetInputs : \E p \in PrimaryInputs :
           page = [main_street |-> m, primary_cross_street |-> p,
                   primary_options |-> updateCrossStreets(m),
                   secondary_options |-> <<>>, updated |-> FALSE]
    /\ AuxIdle

\* The main street dropdown changes: the primary dropdown is refilled and the
\* secondary one cleared.
ChangeMainStreet ==
    /\ \E m \in get_streets.main_streets \cup {""} :
           page' = [main_street |-> m, primary_cross_street |-> "",
                    primary_options |-> updateCrossStreets(m),
                    secondary_options |-> <<>>, updated |-> FALSE]
    /\ UNCHANGED <<store, origin, snap, req, response, streamed, phase, first, aux>>

\* The primary dropdown changes to one of its options.
ChangePrimaryCrossStreet ==
    /\ \E p \in SeqRange(page.primary_options) \cup {""} :
           page' = [page EXCEPT
                       !.primary_cross_street = p,
                       !.secondary_options =
                           updateSecondaryCrossStreets(page.main_street, p),
                       !.updated = TRUE]
    /\ UNCHANGED <<store, origin, snap, req, response, streamed, phase, first, aux>>

\* updateSecondaryCrossStreets on the form as it stands.
UpdateSecondary ==
    /\ ~page.updated
    /\ page' = [page EXCEPT
                    !.secondary_options =
                        updateSecondaryCrossStreets(page.main_street,
                                                    page.primary_cross_street),
                    !.updated = TRUE]
    /\ UNCHANGED <<store, origin, snap, req, response, streamed, phase, first, aux>>

NextStreets == ChangeMainStreet \/ ChangePrimaryCrossStreet \/ UpdateSecondary

StreetSpec == InitStreets /\ [][NextStreets]_vars

---------------------------------------------------------------------------
(* Properties                                                              *)

StreetFields == {"main_street", "primary_cross_street", "secondary_cross_street"}
CrossFields == {"primary_cross_street", "secondary_cross_street"}

\* The last request was a report that was stored.
Reported == req.path = "/wfl" /\ response.kind = "redirect"

\* The last request was answered with the list of buses.
Listed == req.path = "/wfl" /\ response.kind = "json"

\* C1: after any sequence of reports, lists and delete-alls every stored record
\* carries the bus number it is stored under, so the collection holds at most one
\* record per bus number and no list shows a bus number twice.
C1_OneRecordPerBusNumber ==
    /\ \A k \in DOMAIN store :
           "busNumber" \in DOMAIN store[k] /\ store[k]["busNumber"] = k
    /\ Listed =>
           \A i, j \in 1..Len(response.body) :
               i # j => response.body[i]["busNumber"] # response.body[j]["busNumber"]

C1_Witness ==
    /\ Listed
    /\ Cardinality(DOMAIN store) = 2
    /\ Len(response.body) = 2
    /\ \E k \in DOMAIN store : DOMAIN store[k] = ParamNames

\* A step that serves a report for a bus number that already has a record.
ReportOfExisting ==
    /\ req'.path = "/wfl"
    /\ response'.kind = "redirect"
    /\ req'.query["busNumber"] \in DOMAIN store

Supplied(q, f) == f \in DOMAIN q /\ q[f] # ""

\* C2 as stated: a report for a bus that has a record leaves every field it
\* supplies non-empty at the new value and every other field at its old value.
C2_Original ==
    [][ReportOfExisting =>
        LET q == req'.query
            b == q["busNumber"]
        IN \A f \in StreetFields :
               /\ Supplied(q, f) =>
                      f \in DOMAIN store'[b] /\ store'[b][f] = q[f]
               /\ (~Supplied(q, f) /\ f \in DOMAIN store[b]) =>
                      f \in DOMAIN store'[b] /\ store'[b][f] = store[b][f]]_vars

\* A cross street given as the text "null" counts as not supplied.
Written(q, f) == Supplied(q, f) /\ ~(f \in CrossFields /\ q[f] = "null")

\* C2, amended: a report for a bus that has a record leaves every field it
\* supplies non-empty (for a cross street: and not as the text "null") at the new
\* value, and every other field of the record at the value it had before; no
\* other bus's record changes and no field appears that neither had.
C2_Merge ==
    [][ReportOfExisting =>
        LET q == req'.query
            b == q["busNumber"]
        IN /\ DOMAIN store' = DOMAIN store
           /\ \A f \in StreetFields :
                  /\ Written(q, f) =>
                         f \in DOMAIN store'[b] /\ store'[b][f] = q[f]
                  /\ (~Written(q, f) /\ f \in DOMAIN store[b]) =>
                         f \in DOMAIN store'[b] /\ store'[b][f] = store[b][f]
                  /\ (~Written(q, f) /\ f \notin DOMAIN store[b]) =>
                         f \notin DOMAIN store'[b]]_vars

\* A report that names only a main street went to a bus whose record still
\* shows a primary cross street: the field was kept, the main street is new.
C2_Witness ==
    /\ Reported
    /\ DOMAIN req.query = {"busNumber", "main_street", "primary_cross_street"}
    /\ req.query["main_street"] = "null"
    /\ req.query["primary_cross_street"] = "null"
    /\ LET doc == store[req.query["busNumber"]]
       IN /\ DOMAIN doc = ParamNames
          /\ doc["main_street"] = "null"
          /\ doc["primary_cross_street"] = "Folsom Street"
          /\ doc["secondary_cross_street"] = "Folsom Street"
\* C3: reporting the same bus number with the same fields twice in a row leaves
\* the collection exactly as it was after the first of the two reports.
C3_Idempotent ==
    phase = "twice" => (response = Redirect /\ req = first /\ store = snap)

\* The repeated report went to a bus that had a record, which the first report
\* changed.
C3_Witness ==
    /\ phase = "twice"
    /\ store = snap
    /\ first.query["busNumber"] \in DOMAIN origin
    /\ store # origin
    /\ Cardinality(DOMAIN store) = 2

\* The client's first request was upsert(b, {mainStreet: m}): a main street and
\* no other street parameter.
UpsertOnlyMain ==
    /\ first.path = "/wfl"
    /\ DOMAIN first.query = {"busNumber", "main_street"}
    /\ first.query["main_street"] # ""

\* The records of the list that show the client's bus number and main street.
RoundTripRecords ==
    {i \in 1..Len(response.body) :
        /\ response.body[i]["busNumber"] = first.query["busNumber"]
        /\ "main_street" \in DOMAIN response.body[i]
        /\ response.body[i]["main_street"] = first.query["main_street"]}

\* C4 as stated: after upsert(b, {mainStreet: m}) the list holds a record with
\* bus number b, main street m and no cross-street field.
C4_Original ==
    (phase = "listed" /\ UpsertOnlyMain) =>
        \E i \in RoundTripRecords :
            \A f \in CrossFields : f \notin DOMAIN response.body[i]

\* C4, amended: after upsert(b, {mainStreet: m}) the list holds exactly one
\* record with bus number b; it shows main street m, and its cross-street fields
\* are the ones b's record held before the upsert, so none is present when b had
\* no record or a record without cross streets.
C4_RoundTrip ==
    (phase = "listed" /\ UpsertOnlyMain) =>
        LET b == first.query["busNumber"]
            old == IF b \in DOMAIN origin THEN origin[b] ELSE EmptyDoc
        IN /\ response.kind = "json"
           /\ Cardinality(RoundTripRecords) = 1
           /\ \A i \in 1..Len(response.body) :
                  response.body[i]["busNumber"] = b => i \in RoundTripRecords
           /\ \A i \in RoundTripRecords : \A f \in CrossFields :
                  IF f \in DOMAIN old
                  THEN f \in DOMAIN response.body[i]
                       /\ response.body[i][f] = old[f]
                  ELSE f \notin DOMAIN response.body[i]

\* The bus was new, another bus was stored, and the list shows both.
C4_Witness ==
    /\ phase = "listed"
    /\ UpsertOnlyMain
    /\ first.query["busNumber"] = <<"4", "2">>
    /\ first.query["main_street"] = "Folsom Street"
    /\ <<"4", "2">> \notin DOMAIN origin
    /\ Len(response.body) = 2
    /\ \E i \in RoundTripRecords :
           DOMAIN response.body[i] = {"busNumber", "main_street"}

\* The sort key the list is ordered by: the bus number as an integer, else 0.
SortKey(bus) ==
    IF IntParses(bus["busNumber"]) THEN IntValue(bus["busNumber"]) ELSE 0

\* Where stream() yielded the record that the list shows at position i.
StreamPos(i) ==
    CHOOSE p \in 1..Len(streamed) : store[streamed[p]] = response.body[i]

BusNumbersOf(buses) == [i \in 1..Len(buses) |-> buses[i]["busNumber"]]

\* C5: the list is a permutation of the stored records, in non-decreasing order
\* of the sort key, records of equal key in the order stream() yielded them;
\* stored ["10","2","abc","1"] lists as ["abc","1","2","10"].
C5_SortedStablePermutation ==
    phase = "listed" =>
        LET body == response.body
            n == Len(body)
        IN /\ response.kind = "json"
           /\ n = Cardinality(DOMAIN store)
           /\ {body[i] : i \in 1..n} = {store[k] : k \in DOMAIN store}
           /\ \A i, j \in 1..n : i < j => SortKey(body[i]) <= SortKey(body[j])
           /\ \A i, j \in 1..n :
                  (i < j /\ SortKey(body[i]) = SortKey(body[j])) =>
                      StreamPos(i) < StreamPos(j)
           /\ streamed = <<<<"1", "0">>, <<"2">>, <<"a", "b", "c">>, <<"1">>>> =>
                  BusNumbersOf(body) =
                      <<<<"a", "b", "c">>, <<"1">>, <<"2">>, <<"1", "0">>>>

\* The example of the sort contract.
C5_Witness ==
    /\ phase = "listed"
    /\ streamed = <<<<"1", "0">>, <<"2">>, <<"a", "b", "c">>, <<"1">>>>
    /\ BusNumbersOf(response.body) =
           <<<<"a", "b", "c">>, <<"1">>, <<"2">>, <<"1", "0">>>>

\* C6 as stated: every record whose bus number is not an integer comes before
\* every record whose bus number is one, the former in stream order.
C6_Original ==
    phase = "listed" =>
        LET body == response.body
            n == Len(body)
        IN /\ \A i, j \in 1..n :
                  (~IntParses(body[i]["busNumber"]) /\ IntParses(body[j]["busNumber"]))
                      => i < j
           /\ \A i, j \in 1..n :
                  (i < j /\ ~IntParses(body[i]["busNumber"])
                         /\ ~IntParses(body[j]["busNumber"]))
                      => StreamPos(i) < StreamPos(j)

\* C6, amended: every record whose bus number is not an integer comes before
\* every record whose bus number is an integer greater than 0 and after every
\* record whose bus number is a negative integer; among themselves, and with the
\* records whose bus number is the integer 0, they keep the stream order.
C6_NonNumericAsZero ==
    phase = "listed" =>
        LET body == response.body
            n == Len(body)
            NonNumeric(i) == ~IntParses(body[i]["busNumber"])
            Value(i) == IntValue(body[i]["busNumber"])
        IN /\ \A i, j \in 1..n :
                  (NonNumeric(i) /\ ~NonNumeric(j) /\ Value(j) > 0) => i < j
           /\ \A i, j \in 1..n :
                  (NonNumeric(i) /\ ~NonNumeric(j) /\ Value(j) < 0) => j < i
           /\ \A i, j \in 1..n :
                  (i < j /\ (NonNumeric(i) \/ Value(i) = 0)
                         /\ (NonNumeric(j) \/ Value(j) = 0))
                      => StreamPos(i) < StreamPos(j)

\* Two non-numeric records, streamed after a positive and a negative number.
C6_Witness ==
    /\ phase = "listed"
    /\ streamed = <<<<"1", "0">>, <<"x">>, <<"-", "1">>, <<"a", "b", "c">>>>
    /\ BusNumbersOf(response.body) =
           <<<<"-", "1">>, <<"x">>, <<"a", "b", "c">>, <<"1", "0">>>>
\* The busNumber parameter is absent, empty or made of blanks only.
BlankBusNumber(q) ==
    \/ "busNumber" \notin DOMAIN q
    \/ \A i \in 1..Len(q["busNumber"]) : q["busNumber"][i] = " "

\* C7: a GET /wfl whose busNumber is absent, empty or only whitespace is served
\* as a list request whatever street parameters it carries: the collection is
\* left as it was and the response lists every stored record.
C7_BlankBusNumberLists ==
    [][(req'.path = "/wfl" /\ BlankBusNumber(req'.query)) =>
        /\ store' = store
        /\ response'.kind = "json"
        /\ response'.status = 200
        /\ {response'.body[i] : i \in 1..Len(response'.body)}
               = {store[k] : k \in DOMAIN store}]_vars

\* A request with a blank bus number and two street parameters was answered
\* with the two stored records, and no record was made for it.
C7_Witness ==
    /\ Listed
    /\ DOMAIN req.query = {"busNumber", "main_street", "primary_cross_street"}
    /\ req.query["busNumber"] = <<" ">>
    /\ DOMAIN store = {<<"4", "2">>, <<"a">>}
    /\ Len(response.body) = 2

\* The secondary cross streets the street table gives a pair of streets.
TableLookup(m, p) ==
    IF <<m, p>> \in DOMAIN SECONDARY_CROSS_STREETS
    THEN SECONDARY_CROSS_STREETS[<<m, p>>]
    ELSE IF <<"*", p>> \in DOMAIN SECONDARY_CROSS_STREETS
         THEN SECONDARY_CROSS_STREETS[<<"*", p>>]
         ELSE <<>>

\* C8: for a main street m and a primary cross street p the secondary dropdown
\* is given the table's list for (m, p) when there is one, else the list for
\* ("*", p) when there is one, else nothing; with no street selected in either
\* dropdown it is given nothing.
C8_SecondaryResolution ==
    page.updated =>
        LET m == page.main_street
            p == page.primary_cross_street
        IN IF m # "" /\ p # ""
           THEN page.secondary_options = TableLookup(m, p)
           ELSE page.secondary_options = <<>>

\* A pair with an entry of its own that differs from the wildcard entry.
C8_Witness ==
    /\ page.updated
    /\ page.main_street = "Bryant Street"
    /\ page.primary_cross_street = "The Embarcadero"
    /\ page.secondary_options = <<"Main Street">>
    /\ SECONDARY_CROSS_STREETS[<<"*", "The Embarcadero">>] = <<"Spear Street">>

\* No field of a stored record is empty, and no cross street is the text "null".
NoEmptyField ==
    \A k \in DOMAIN store : \A f \in DOMAIN store[k] :
        /\ f \in ParamNames
        /\ IF f = "busNumber" THEN store[k][f] # <<>> ELSE store[k][f] # ""
        /\ f \in CrossFields => store[k][f] # "null"

\* C9: no stored record ever holds a field with an empty value, nor a cross
\* street with the text "null"; a street parameter that a report leaves out or
\* gives empty (a cross street: or gives as "null") is left out of what the
\* report writes, so the record has that field afterwards only if it had it
\* before, with the same value.
C9_SparseSchema ==
    /\ []NoEmptyField
    /\ [][(req'.path = "/wfl" /\ response'.kind = "redirect") =>
            LET q == req'.query
                b == q["busNumber"]
                old == IF b \in DOMAIN store THEN store[b] ELSE EmptyDoc
            IN \A f \in StreetFields :
                   ~Written(q, f) =>
                       IF f \in DOMAIN old
                       THEN f \in DOMAIN store'[b] /\ store'[b][f] = old[f]
                       ELSE f \notin DOMAIN store'[b]]_vars

\* A report with an empty main street, a "null" primary cross street and no
\* secondary one stored the bus number alone.
C9_Witness ==
    /\ Reported
    /\ DOMAIN req.query = {"busNumber", "main_street", "primary_cross_street"}
    /\ req.query["main_street"] = ""
    /\ req.query["primary_cross_street"] = "null"
    /\ DOMAIN store[req.query["busNumber"]] = {"busNumber"}

\* C10: a username and password of which either differs from the configured
\* pair are answered 401 with the header WWW-Authenticate: Basic; the username is
\* returned only when both match.
C10_RejectsWrongCredentials ==
    req.path = "/admin" =>
        LET c == req.credentials
        IN IF c.username = "admin" /\ c.password = "wfl2026"
           THEN response.status = 200 /\ response.body = c.username
           ELSE /\ response.status = 401
                /\ <<"WWW-Authenticate", "Basic">> \in response.headers

\* verify("admin", "wrongpass").
C10_Witness ==
    /\ req.path = "/admin"
    /\ req.credentials = [username |-> "admin", password |-> "wrongpass"]
    /\ response.status = 401

---------------------------------------------------------------------------
(* Two tiers of credentials: the variant of main.py with a superadmin pair, *)
(* GET /admin/verify and DELETE /admin/delete-all-buses                     *)

SUPERADMIN_USERNAME == "superadmin"
SUPERADMIN_PASSWORD == "superadmin-password"

\* verify(username, password) -> Role | Unauthorized: each field of each pair is
\* compared with compare_digest.
verify(credentials) ==
    LET is_superadmin ==
            /\ compare_digest(credentials.username, SUPERADMIN_USERNAME)
            /\ compare_digest(credentials.password, SUPERADMIN_PASSWORD)
        is_admin ==
            /\ compare_digest(credentials.username, ADMIN_USERNAME)
            /\ compare_digest(credentials.password, ADMIN_PASSWORD)
    IN IF is_superadmin THEN "superadmin"
       ELSE IF is_admin THEN "admin"
       ELSE "unauthorized"

verifyAdminOrAbove(credentials) == verify(credentials) \in {"admin", "superadmin"}

verifySuperadminOnly(credentials) == verify(credentials) = "superadmin"

Forbidden ==
    [status |-> 403, kind |-> "error", headers |-> {},
     body |-> "Superadmin access required"]

RoleUsernames == {"admin", "superadmin", "guest"}
RolePasswords == {"wfl2026", "superadmin-password", "wrongpass"}
RoleCredentials == [username : RoleUsernames, password : RolePasswords]

\* GET /admin/verify, admin or above: {success, authenticated, username,
\* isSuperadmin}.
verify_endpoint(credentials) ==
    /\ req' = [path |-> "/admin/verify", credentials |-> credentials]
    /\ response' =
           IF ~verifyAdminOrAbove(credentials)
           THEN Unauthorized
           ELSE [status |-> 200, kind |-> "json", headers |-> {},
                 body |-> [success |-> TRUE, authenticated |-> TRUE,
                           username |-> credentials.username,
                           isSuperadmin |-> verifySuperadminOnly(credentials)]]
    /\ UNCHANGED <<store, streamed>>

\* DELETE /admin/delete-all-buses, superadmin only: 401 for no role, 403 for the
\* admin role, and otherwise every streamed record is deleted and counted as in
\* delete_all_buses: {success, message: deleted count}.
delete_all_buses_endpoint(credentials, order) ==
    /\ req' = [path |-> "/admin/delete-all-buses", credentials |-> credentials]
    /\ IF ~verifyAdminOrAbove(credentials)
       THEN response' = Unauthorized /\ UNCHANGED <<store, streamed>>
       ELSE IF ~verifySuperadminOnly(credentials)
       THEN response' = Forbidden /\ UNCHANGED <<store, streamed>>
       ELSE LET deleted == {order[i] : i \in 1..Len(order)}
                deleted_count == Len(order)
            IN /\ streamed' = order
               /\ store' = [k \in DOMAIN store \ deleted |-> store[k]]
               /\ response' = [status |-> 200, kind |-> "json", headers |-> {},
                               body |-> [success |-> TRUE,
                                         message |-> deleted_count]]

InitRoles ==
    /\ store \in Stores
    /\ snap = EmptyStore
    /\ origin = store
    /\ req = [path |-> ""]
    /\ response = NoResponse
    /\ streamed = <<>>
    /\ phase = "roles"
    /\ first = [path |-> ""]
    /\ page = PageInit
    /\ AuxIdle

RoleVerify ==
    /\ phase = "roles"
    /\ \E c \in RoleCredentials : verify_endpoint(c)
    /\ UNCHANGED <<origin, snap, phase, first, page, aux>>

RoleDeleteAll ==
    /\ phase = "roles"
    /\ \E c \in RoleCredentials : \E order \in StreamOrders(store) :
           delete_all_buses_endpoint(c, order)
    /\ UNCHANGED <<origin, snap, phase, first, page, aux>>

NextRoles == RoleVerify \/ RoleDeleteAll

RoleSpec == InitRoles /\ [][NextRoles]_vars

IsAdminPair(c) == c.username = "admin" /\ c.password = "wfl2026"

IsSuperadminPair(c) ==
    c.username = "superadmin" /\ c.password = "superadmin-password"

---------------------------------------------------------------------------
(* GET /wfl when a call in the try block raises                            *)

\* The calls of the try block that can raise, by branch.
ReportFaults == {"document", "set"}
ListFaults == {"stream", "to_dict", "sort_buses_by_number"}

\* str(e) of the exception raised.
Messages == {"", "503 Deadline Exceeded"}

InternalServerError(message) ==
    [status |-> 500, kind |-> "json", headers |-> {},
     body |-> [error |-> "Internal server error", message |-> message]]

\* A handler that calls set() again after it raised, and succeeds.
wfl_endpoint_retry(q, fault, message) ==
    /\ req' = [path |-> "/wfl", query |-> q, raised |-> fault]
    /\ streamed' = <<>>
    /\ IF fault = "set"
       THEN /\ store' = SetMerge(store, document(store, q["busNumber"]), bus_data(q))
            /\ response' = Redirect
       ELSE /\ store' = store
            /\ response' = InternalServerError(message)

\* The except branch: the try block is abandoned at the call that raised, the
\* exception is logged and answered. A set() that raised has written nothing,
\* and nothing else in the try block writes.
wfl_endpoint_except(q, fault, message) ==
    /\ req' = [path |-> "/wfl", query |-> q, raised |-> fault]
    /\ streamed' = <<>>
    /\ store' = store
    /\ response' = InternalServerError(message)

InitFail ==
    /\ store \in Stores
    /\ snap = EmptyStore
    /\ origin = store
    /\ req = [path |-> ""]
    /\ response = NoResponse
    /\ streamed = <<>>
    /\ phase = "tofail"
    /\ first = [path |-> ""]
    /\ page = PageInit
    /\ AuxIdle

\* A report during which document() or set() raises.
FailReport ==
    /\ phase = "tofail"
    /\ phase' = "failed"
    /\ \E q \in ReportQueries : \E fault \in ReportFaults : \E m \in Messages :
           wfl_endpoint_except(q, fault, m)
    /\ UNCHANGED <<origin, snap, first, page, aux>>

\* A listing during which stream(), to_dict() or the sort raises.
FailList ==
    /\ phase = "tofail"
    /\ phase' = "failed"
    /\ \E q \in ListQueries : \E fault \in ListFaults : \E m \in Messages :
           wfl_endpoint_except(q, fault, m)
    /\ UNCHANGED <<origin, snap, first, page, aux>>

NextFail == FailReport \/ FailList

FailSpec == InitFail /\ [][NextFail]_vars

Raised == req.path = "/wfl" /\ "raised" \in DOMAIN req

\* C13: a /wfl request during which a call raises, in the upsert branch or in
\* the list branch, is answered with status 500 and a JSON body whose fields
\* are error and message; the store is what it was before the request (no
\* second attempt wrote), and the answer is not the redirect of a saved report.
C13_ExceptionIs500 ==
    /\ [](Raised =>
            /\ response.status = 500
            /\ response.kind = "json"
            /\ DOMAIN response.body = {"error", "message"}
            /\ response.body.error = "Internal server error"
            /\ response # Redirect
            /\ store = origin)
    /\ [][(req'.path = "/wfl" /\ "raised" \in DOMAIN req') => store' = store]_vars

\* set() raised during a report that would have changed the record of its bus.
C13_Witness ==
    /\ Raised
    /\ req.raised = "set"
    /\ HasBusNumber(req.query)
    /\ store = origin
    /\ SetMerge(store, document(store, req.query["busNumber"]), bus_data(req.query)) # store
    /\ response.status = 500
    /\ response.body.message = "503 Deadline Exceeded"

---------------------------------------------------------------------------
(* Two reports served side by side                                         *)

\* The reports of the two requests: either bus, a main street absent, empty or
\* one of two streets, a primary cross street absent, "null" or a street.
ConcQueries ==
    {MkQuery({b}, M, P, {}) : b \in ReportIds,
                              M \in Opt({"", "Folsom Street", "Howard Street"}),
                              P \in Opt({"null", "Folsom Street"})}

\* The stores the two requests find: empty, one bus with all its fields, and
\* that bus together with one stored by its number alone.
ConcStores ==
    LET full == bus_data(MkQuery({<<"4", "2">>}, {"Mission Street"},
                                 {"Howard Street"}, {"Folsom Street"}))
        bare == bus_data(MkQuery({<<"a">>}, {}, {}, {}))
    IN {EmptyStore,
        SetMerge(EmptyStore, <<"4", "2">>, full),
        SetMerge(SetMerge(EmptyStore, <<"4", "2">>, full), <<"a">>, bare)}

\* A request that has entered the handler and made no call yet.
Entered(q) == [q |-> q, pc |-> "entered", bus_ref |-> <<>>, bus_data |-> EmptyDoc]

\* A handler that reads the record and builds the whole merged record itself.
build_reading(h) ==
    LET id == document(store, h.q["busNumber"])
        old == IF id \in DOMAIN store THEN store[id] ELSE EmptyDoc
        new == bus_data(h.q)
    IN [h EXCEPT !.pc = "built",
                 !.bus_ref = id,
                 !.bus_data = [f \in DOMAIN old \cup DOMAIN new |->
                                  IF f \in DOMAIN new THEN new[f] ELSE old[f]]]

\* The handler up to its store write: bus_ref and bus_data are locals computed
\* from the parameters alone, nothing is read from the store.
build(h) ==
    [h EXCEPT !.pc = "built",
              !.bus_ref = document(store, h.q["busNumber"]),
              !.bus_data = bus_data(h.q)]

\* bus_ref.set(bus_data, merge=True), applied by the store as one write.
write(collection, h) == SetMerge(collection, h.bus_ref, h.bus_data)

InitConc ==
    /\ store \in ConcStores
    /\ snap = EmptyStore
    /\ origin = store
    /\ req = [path |-> ""]
    /\ response = NoResponse
    /\ streamed = <<>>
    /\ phase = "concurrent"
    /\ first = [path |-> ""]
    /\ page = PageInit
    /\ \E q1, q2 \in ConcQueries :
           inflight = [pc |-> "running", h |-> <<Entered(q1), Entered(q2)>>,
                       writes |-> <<>>]
    /\ deleter = Idle
    /\ adapter = Idle

ConcBuild ==
    /\ phase = "concurrent"
    /\ \E i \in 1..2 :
           /\ inflight.h[i].pc = "entered"
           /\ inflight' = [inflight EXCEPT !.h[i] = build(inflight.h[i])]
    /\ UNCHANGED <<store, snap, origin, req, response, streamed, phase, first,
                   page, deleter, adapter>>

ConcWrite ==
    /\ phase = "concurrent"
    /\ \E i \in 1..2 :
           /\ inflight.h[i].pc = "built"
           /\ store' = write(store, inflight.h[i])
           /\ inflight' = [inflight EXCEPT !.h[i].pc = "written",
                                           !.writes = Append(@, i)]
    /\ UNCHANGED <<snap, origin, req, response, streamed, phase, first, page,
                   deleter, adapter>>

\* return RedirectResponse(...)
ConcRespond ==
    /\ phase = "concurrent"
    /\ \E i \in 1..2 :
           /\ inflight.h[i].pc = "written"
           /\ inflight' = [inflight EXCEPT !.h[i].pc = "responded"]
           /\ req' = WflRequest(inflight.h[i].q)
           /\ response' = Redirect
    /\ UNCHANGED <<store, snap, origin, streamed, phase, first, page, deleter,
                   adapter>>

NextConc == ConcBuild \/ ConcWrite \/ ConcRespond

ConcSpec == InitConc /\ [][NextConc]_vars

BusOf(i) == inflight.h[i].q["busNumber"]

BothWritten == phase = "concurrent" /\ Len(inflight.writes) = 2

\* The record a bus holds after the reports qs were written in this order on
\* the record old: per field, the value of the last report that writes the
\* field, else the old value, else no field.
RecordAfter(old, b, qs) ==
    LET writers(f) == {i \in 1..Len(qs) : Written(qs[i], f)}
        last(f) == CHOOSE i \in writers(f) : \A j \in writers(f) : j <= i
        fields == {f \in StreetFields : writers(f) # {} \/ f \in DOMAIN old}
    IN [f \in fields \cup {"busNumber"} |->
           IF f = "busNumber" THEN b
           ELSE IF writers(f) # {} THEN qs[last(f)][f]
           ELSE old[f]]

OriginRecord(b) == IF b \in DOMAIN origin THEN origin[b] ELSE EmptyDoc

\* C14: when two reports for the same bus number have both been written, in
\* either order, the record of the bus is the one the report written last left:
\* each field that report writes has its value, and every other field is as the
\* report written first left it. The order of the writes alone decides it.
C14_LastWriteWins ==
    (BothWritten /\ BusOf(1) = BusOf(2)) =>
        LET b == BusOf(1)
            w1 == inflight.h[inflight.writes[1]].q
            w2 == inflight.h[inflight.writes[2]].q
            afterFirst == RecordAfter(OriginRecord(b), b, <<w1>>)
        IN /\ b \in DOMAIN store
           /\ store[b] = RecordAfter(afterFirst, b, <<w2>>)
           /\ store[b] = RecordAfter(OriginRecord(b), b, <<w1, w2>>)
           /\ \A f \in StreetFields :
                  Written(w2, f) => store[b][f] = w2[f]

\* The second request's write was applied first, the two name different main
\* streets for bus 42, and the record holds the one written last.
C14_Witness ==
    /\ BothWritten
    /\ BusOf(1) = <<"4", "2">> /\ BusOf(2) = <<"4", "2">>
    /\ inflight.writes = <<2, 1>>
    /\ Written(inflight.h[1].q, "main_street")
    /\ Written(inflight.h[2].q, "main_street")
    /\ inflight.h[1].q["main_street"] # inflight.h[2].q["main_street"]
    /\ store[<<"4", "2">>]["main_street"] = inflight.h[1].q["main_street"]

\* C15: the write of a report for bus b changes the record of no other bus;
\* and when two reports for different bus numbers have both been written, each
\* bus holds what its own report alone leaves of its record and every other
\* record is as it was, whichever write came first and however the two handlers
\* were interleaved.
C15_DifferentBusesIndependent ==
    /\ []((BothWritten /\ BusOf(1) # BusOf(2)) =>
            /\ DOMAIN store = DOMAIN origin \cup {BusOf(1), BusOf(2)}
            /\ \A i \in 1..2 :
                   store[BusOf(i)] =
                       RecordAfter(OriginRecord(BusOf(i)), BusOf(i), <<inflight.h[i].q>>)
            /\ \A k \in DOMAIN origin \ {BusOf(1), BusOf(2)} : store[k] = origin[k])
    /\ [][\A i \in 1..2 :
              (phase = "concurrent" /\ Len(inflight'.writes) > Len(inflight.writes)
                 /\ inflight'.writes[Len(inflight'.writes)] = i) =>
                  \A k \in (DOMAIN store \cup DOMAIN store') \ {BusOf(i)} :
                      k \in DOMAIN store /\ k \in DOMAIN store' /\ store'[k] = store[k]]_vars

\* Bus a was written before bus 42, each with a street, into a store that held
\* bus 42 already.
C15_Witness ==
    /\ BothWritten
    /\ BusOf(1) = <<"4", "2">> /\ BusOf(2) = <<"a">>
    /\ inflight.writes = <<2, 1>>
    /\ <<"4", "2">> \in DOMAIN origin
    /\ <<"a">> \notin DOMAIN origin
    /\ Written(inflight.h[1].q, "main_street")
    /\ Written(inflight.h[2].q, "primary_cross_street")
    /\ store[<<"4", "2">>] # origin[<<"4", "2">>]

---------------------------------------------------------------------------
(* delete_all_buses record by record, with reports arriving meanwhile      *)

DeleteIds == {<<"1">>, <<"4", "2">>, <<"a">>}

\* Any of three buses stored, each by its number alone or with a main street.
DeleteStores ==
    LET docs(id) == {bus_data(MkQuery({id}, M, {}, {})) : M \in Opt({"Folsom Street"})}
    IN UNION {{st \in [D -> UNION {docs(id) : id \in D}] :
                  \A id \in D : st[id]["busNumber"] = id} : D \in SUBSET DeleteIds}

\* The reports that may arrive while the script runs.
DeleteReports == {MkQuery({id}, {"Howard Street"}, {}, {}) : id \in DeleteIds}

\* A stream() that yields the first document only.
stream_first(collection) ==
    {IF o = <<>> THEN <<>> ELSE <<o[1]>> : o \in StreamOrders(collection)}

\* buses_ref.stream(): the documents the collection holds when the query runs,
\* in some order.
stream(collection) == StreamOrders(collection)

\* bus.reference.delete(): the document is gone; deleting one that is not there
\* changes nothing.
delete(collection, id) == [k \in DOMAIN collection \ {id} |-> collection[k]]

InitDelete ==
    /\ store \in DeleteStores
    /\ snap = EmptyStore
    /\ origin = store
    /\ req = [path |-> ""]
    /\ response = NoResponse
    /\ streamed = <<>>
    /\ phase = "deleting"
    /\ first = [path |-> ""]
    /\ page = PageInit
    /\ inflight = Idle
    /\ deleter = Idle
    /\ adapter = Idle

\* buses = buses_ref.stream(); deleted_count = 0
DeleteStart ==
    /\ phase = "deleting"
    /\ deleter.pc = "idle"
    /\ \E order \in stream(store) :
           /\ deleter' = [pc |-> "looping", todo |-> order, deleted_count |-> 0,
                          reported |-> FALSE]
           /\ streamed' = order
    /\ req' = [path |-> "delete-all-buses.py"]
    /\ UNCHANGED <<store, snap, origin, response, phase, first, page, inflight,
                   adapter>>

\* One turn of the loop: bus.reference.delete(); deleted_count += 1
DeleteStep ==
    /\ phase = "deleting"
    /\ deleter.pc = "looping"
    /\ deleter.todo # <<>>
    /\ store' = delete(store, Head(deleter.todo))
    /\ deleter' = [deleter EXCEPT !.todo = Tail(@), !.deleted_count = @ + 1]
    /\ UNCHANGED <<snap, origin, req, response, streamed, phase, first, page,
                   inflight, adapter>>

\* return deleted_count
DeleteReturn ==
    /\ phase = "deleting"
    /\ deleter.pc = "looping"
    /\ deleter.todo = <<>>
    /\ deleter' = [deleter EXCEPT !.pc = "returned"]
    /\ req' = [path |-> "delete-all-buses.py"]
    /\ response' = [status |-> 0, kind |-> "return", headers |-> {},
                    body |-> deleter.deleted_count]
    /\ UNCHANGED <<store, snap, origin, streamed, phase, first, page, inflight,
                   adapter>>

\* A report served while the script is in its loop, or after it returned.
DeleteReport ==
    /\ phase = "deleting"
    /\ deleter.pc \in {"looping", "returned"}
    /\ \E q \in DeleteReports : wfl_endpoint(q, <<>>)
    /\ deleter' = [deleter EXCEPT !.reported = TRUE]
    /\ UNCHANGED <<snap, origin, phase, first, page, inflight, adapter>>

\* The list requested after the script returned.
DeleteList ==
    /\ phase = "deleting"
    /\ deleter.pc = "returned"
    /\ \E order \in StreamOrders(store) :
           wfl_endpoint(MkQuery({}, {}, {}, {}), order)
    /\ deleter' = [deleter EXCEPT !.pc = "listed"]
    /\ UNCHANGED <<snap, origin, phase, first, page, inflight, adapter>>

NextDelete ==
    DeleteStart \/ DeleteStep \/ DeleteReturn \/ DeleteReport \/ DeleteList

DeleteSpec == InitDelete /\ [][NextDelete]_vars

DeleteDone == phase = "deleting" /\ deleter.pc \in {"returned", "listed"}

\* C16: when delete_all_buses has returned and no report was served since it
\* started, the store holds no record, the count returned is the number of
\* records the store held when it started, and the list requested next is
\* empty.
C16_DeleteAllEmptiesAndCounts ==
    (DeleteDone /\ ~deleter.reported) =>
        /\ store = EmptyStore
        /\ deleter.deleted_count = Cardinality(DOMAIN origin)
        /\ deleter.pc = "returned" =>
               (response.kind = "return" /\ response.body = Cardinality(DOMAIN origin))
        /\ deleter.pc = "listed" =>
               (response.status = 200 /\ response.body = <<>>)

\* Three records were deleted undisturbed and the list that followed is empty.
C16_Witness ==
    /\ DeleteDone
    /\ deleter.pc = "listed"
    /\ ~deleter.reported
    /\ Cardinality(DOMAIN origin) = 3
    /\ deleter.deleted_count = 3
    /\ response.body = <<>>

---------------------------------------------------------------------------
(* handler(request): the Cloud Functions entry point bridging to the app   *)

\* The most calls of receive and send the application makes in one run.
MaxAppCalls == 4

\* bytes values are tagged; decode() gives the str.
Bytes(s) == <<"bytes", s>>
decode(b) == b[2]

RequestBodies == {<<>>, <<"x", "y">>}
AppStatuses == {200, 404}

\* The header lists of the application's responses; no name occurs twice.
AppHeaders ==
    {<<>>,
     <<<<Bytes("content-type"), Bytes("application/json")>>>>,
     <<<<Bytes("location"), Bytes("/admin/input?saved=true")>>,
       <<Bytes("content-length"), Bytes("0")>>>>}

\* The body messages of the application: with a chunk, or without the key.
BodyMessages ==
    {[type |-> "http.response.body", body |-> c] : c \in {<<"a">>, <<"b", "c">>}}
        \cup {[type |-> "http.response.body"]}

StartMessages ==
    [type : {"http.response.start"}, status : AppStatuses, headers : AppHeaders]

\* str(e) of what the application raises.
AppErrors == {"boom"}

\* receive(): (the message returned, body_sent afterwards).
receive(request_body, body_sent) ==
    IF body_sent
    THEN <<[type |-> "http.disconnect"], body_sent>>
    ELSE <<[type |-> "http.request", body |-> request_body], TRUE>>

\* A send() that keeps the last chunk only.
send_last(response_data, message) ==
    IF message.type = "http.response.start"
    THEN [response_data EXCEPT !.status = message.status,
                               !.headers = message.headers]
    ELSE IF message.type = "http.response.body"
    THEN [response_data EXCEPT
              !.body = IF "body" \in DOMAIN message THEN message.body ELSE <<>>]
    ELSE response_data

\* send(message): response_data afterwards.
send(response_data, message) ==
    IF message.type = "http.response.start"
    THEN [response_data EXCEPT !.status = message.status,
                               !.headers = message.headers]
    ELSE IF message.type = "http.response.body"
    THEN [response_data EXCEPT
              !.body = @ \o (IF "body" \in DOMAIN message THEN message.body ELSE <<>>)]
    ELSE response_data

\* {k.decode(): v.decode() for k, v in headers}: a later pair replaces an
\* earlier one of the same name.
HeadersDict(headers) ==
    LET names == {decode(headers[i][1]) : i \in DOMAIN headers}
        last(k) == CHOOSE i \in DOMAIN headers :
                       /\ decode(headers[i][1]) = k
                       /\ \A j \in DOMAIN headers : decode(headers[j][1]) = k => j <= i
    IN [k \in names |-> decode(headers[last(k)][2])]

\* Response(body, status=status_code, headers=headers): Flask keeps the headers
\* given and adds its default Content-Type when none of them is a content type.
FlaskResponse(response_data) ==
    LET given == HeadersDict(response_data.headers)
        default == IF "content-type" \in DOMAIN given THEN {} ELSE {"Content-Type"}
    IN [kind |-> "asgi", status |-> response_data.status,
        headers |-> [k \in DOMAIN given \cup default |->
                        IF k \in DOMAIN given THEN given[k]
                        ELSE "text/html; charset=utf-8"],
        body |-> response_data.body]

\* Response(json.dumps({"error": str(e)}), status=500, headers={...})
ErrorResponse(message) ==
    [kind |-> "error", status |-> 500,
     headers |-> [k \in {"Content-Type"} |-> "application/json"],
     body |-> [error |-> message]]

InitAdapter ==
    /\ store = EmptyStore
    /\ snap = EmptyStore
    /\ origin = EmptyStore
    /\ req = [path |-> ""]
    /\ response = NoResponse
    /\ streamed = <<>>
    /\ phase = "adapter"
    /\ first = [path |-> ""]
    /\ page = PageInit
    /\ inflight = Idle
    /\ deleter = Idle
    /\ \E b \in RequestBodies :
           adapter = [pc |-> "running", request_body |-> b, body_sent |-> FALSE,
                      response_data |-> [status |-> 200, headers |-> <<>>, body |-> <<>>],
                      received |-> <<>>, sent |-> <<>>,
                      result |-> [kind |-> "none"]]

AppRunning ==
    /\ phase = "adapter"
    /\ adapter.pc = "running"

AppCalls == Len(adapter.received) + Len(adapter.sent)

\* The application awaits receive().
AppReceive ==
    /\ AppRunning
    /\ AppCalls < MaxAppCalls
    /\ LET r == receive(adapter.request_body, adapter.body_sent)
       IN adapter' = [adapter EXCEPT !.body_sent = r[2],
                                     !.received = Append(@, r[1])]
    /\ UNCHANGED <<store, snap, origin, req, response, streamed, phase, first,
                   page, inflight, deleter>>

\* The application awaits send() with its response-start message, once.
AppSendStart ==
    /\ AppRunning
    /\ AppCalls < MaxAppCalls
    /\ \A i \in DOMAIN adapter.sent : adapter.sent[i].type # "http.response.start"
    /\ \E message \in StartMessages :
           adapter' = [adapter EXCEPT
                          !.response_data = send(adapter.response_data, message),
                          !.sent = Append(@, message)]
    /\ UNCHANGED <<store, snap, origin, req, response, streamed, phase, first,
                   page, inflight, deleter>>

\* The application awaits send() with a response-body message.
AppSendBody ==
    /\ AppRunning
    /\ AppCalls < MaxAppCalls
    /\ \E i \in DOMAIN adapter.sent : adapter.sent[i].type = "http.response.start"
    /\ \E message \in BodyMessages :
           adapter' = [adapter EXCEPT
                          !.response_data = send(adapter.response_data, message),
                          !.sent = Append(@, message)]
    /\ UNCHANGED <<store, snap, origin, req, response, streamed, phase, first,
                   page, inflight, deleter>>

\* The application returns: the response collected is converted and returned.
AppReturns ==
    /\ AppRunning
    /\ adapter' = [adapter EXCEPT !.pc = "returned",
                                  !.result = FlaskResponse(adapter.response_data)]
    /\ UNCHANGED <<store, snap, origin, req, response, streamed, phase, first,
                   page, inflight, deleter>>

\* The application raises: the except clause answers.
AppRaises ==
    /\ AppRunning
    /\ \E e \in AppErrors :
           adapter' = [adapter EXCEPT !.pc = "raised", !.result = ErrorResponse(e)]
    /\ UNCHANGED <<store, snap, origin, req, response, streamed, phase, first,
                   page, inflight, deleter>>

NextAdapter ==
    AppReceive \/ AppSendStart \/ AppSendBody \/ AppReturns \/ AppRaises

AdapterSpec == InitAdapter /\ [][NextAdapter]_vars

RECURSIVE ChunksInOrder(_)
\* The chunks of the response-body messages, one after the other.
ChunksInOrder(sent) ==
    IF sent = <<>> THEN <<>>
    ELSE LET m == Head(sent)
         IN (IF m.type = "http.response.body" /\ "body" \in DOMAIN m
             THEN m.body ELSE <<>>) \o ChunksInOrder(Tail(sent))

StartsSent == {i \in DOMAIN adapter.sent : adapter.sent[i].type = "http.response.start"}

\* C17: in one invocation of handler, the first receive() returns the whole
\* request body and every later one a disconnect; when the application returns,
\* the response has the status and the headers of its response-start message
\* (and beside them at most Flask's default Content-Type) and, as body, its body chunks one after the other in the order sent; when
\* the application raises, the response is a 500 with a JSON body holding the
\* error, whatever had been sent; and once handler has returned its response
\* nothing more is received, sent or returned.
C17_OneRequestOneResponse ==
    /\ [](phase = "adapter" =>
            /\ \A i \in DOMAIN adapter.received :
                   adapter.received[i] =
                       IF i = 1
                       THEN [type |-> "http.request", body |-> adapter.request_body]
                       ELSE [type |-> "http.disconnect"]
            /\ adapter.pc = "running" => adapter.result.kind = "none"
            /\ adapter.pc = "returned" =>
                   /\ adapter.result.kind = "asgi"
                   /\ adapter.result.body = ChunksInOrder(adapter.sent)
                   /\ \A s \in StartsSent :
                          LET m == adapter.sent[s]
                          IN /\ adapter.result.status = m.status
                             /\ DOMAIN adapter.result.headers \ {"Content-Type"} =
                                    {decode(m.headers[i][1]) : i \in DOMAIN m.headers}
                             /\ \A i \in DOMAIN m.headers :
                                    adapter.result.headers[decode(m.headers[i][1])]
                                        = decode(m.headers[i][2])
            /\ adapter.pc = "raised" =>
                   /\ adapter.result.kind = "error"
                   /\ adapter.result.status = 500
                   /\ adapter.result.headers["Content-Type"] = "application/json"
                   /\ DOMAIN adapter.result.body = {"error"})
    /\ [][(phase = "adapter" /\ adapter.pc # "running") => adapter' = adapter]_vars

\* The application read the request, then answered 404 with two chunks.
C17_Witness ==
    /\ phase = "adapter"
    /\ adapter.pc = "returned"
    /\ adapter.request_body = <<"x", "y">>
    /\ Len(adapter.received) = 1
    /\ Len(adapter.sent) = 3
    /\ adapter.sent[2] = [type |-> "http.response.body", body |-> <<"b", "c">>]
    /\ adapter.sent[3] = [type |-> "http.response.body", body |-> <<"a">>]
    /\ adapter.result.status = 404
    /\ adapter.result.body = <<"b", "c", "a">>
    /\ "location" \in DOMAIN adapter.result.headers
====
